---- MODULE Spec2Model ----
(***************************************************************************)
(* Model of scripts/deploy.py, scripts/init.py and scripts/check.py.       *)
(*                                                                         *)
(* Strings that the code only passes around (paths, e-mails, variable      *)
(* names) are TLA+ strings.  Project ids are sequences of one-character    *)
(* strings, because init.py builds one by concatenation.  A JSON text is a *)
(* record [kind, obj]: kind says what json.load makes of it, obj is the    *)
(* object it denotes.  A dict (os.environ, the file system, the secret     *)
(* store) is a function whose DOMAIN is the set of keys present.           *)
(***************************************************************************)
EXTENDS Integers, Sequences, FiniteSets, TLC

VARIABLES
    files,          \* the file system: path -> JSON text
    osenv,          \* os.environ of the deploy process
    dpc,            \* deploy.main: the statement about to run
    denv,           \* deploy.main: env
    tmp_key_path,   \* deploy.main: tmp_key_path
    dproject,       \* deploy.main: project_id
    dcmds,          \* deploy.main: the external commands issued so far
    dexit,          \* deploy.main: exit status of the process (Running until it ends)
    iargs,          \* init.main: args, as argparse returns them
    ipc,            \* init.main: the step about to run
    iproject,       \* init.main: project_id
    icmds,          \* init.main: the external commands issued so far in this run
    iexit,          \* init.main: exit status of the process (Running until it ends)
    secrets,        \* the remote secret store: name -> value
    nkeys,          \* service-account keys the cloud has issued so far
    runs,           \* init runs started so far
    prev,           \* exit status, project and secrets set of each init run that ended
    dirs,           \* the directories of the working directory
    cenviron,       \* os.environ of the check process
    cpc,            \* check.main: the statement about to run
    cproject,       \* check.main: the project_id passed to check_apigee_api
    ccmds,          \* check.main: the external commands issued so far
    cexit           \* check.main: exit status of the process (Running until it ends)

dvars == <<osenv, dpc, denv, tmp_key_path, dproject, dcmds, dexit>>
ivars == <<iargs, ipc, iproject, icmds, iexit, secrets, nkeys, runs, prev>>
cvars == <<dirs, cenviron, cpc, cproject, ccmds, cexit>>
vars == <<files, dvars, ivars, cvars>>

----------------------------------------------------------------------------
(* Values *)

None == "None"              \* Python's None where a path or e-mail is expected
NoId == <<"None">>          \* Python's None where a project id is expected
Running == -1               \* the process has not ended

EmptyDict == [x \in {} |-> 0]

KEY_FILE == "sa-key.json"
GAC == "GOOGLE_APPLICATION_CREDENTIALS"
GISA == "GOOGLE_IMPERSONATE_SERVICE_ACCOUNT"

P1 == <<"p", "1">>
P2 == <<"p", "2">>
ProjectIds == {P1, P2}

\* A JSON text that does not parse, one that is no object, and objects.
Malformed == [kind |-> "malformed", obj |-> EmptyDict]
NonObject == [kind |-> "nonobject", obj |-> EmptyDict]
JsonObject(o) == [kind |-> "object", obj |-> o]
KeyTexts ==
    {Malformed, NonObject, JsonObject(EmptyDict)}
        \cup {JsonObject("project_id" :> p) : p \in ProjectIds \cup {<<>>}}

TmpNames == {"/tmp/tmpA.json", "/tmp/tmpB.json"}

----------------------------------------------------------------------------
(* dict operations *)

Put(d, k, v) == [x \in DOMAIN d \cup {k} |-> IF x = k THEN v ELSE d[x]]
Del(d, k) == [x \in DOMAIN d \ {k} |-> d[x]]
\* A setdefault that overwrites a key already present.
setdefault_overwrite(d, k, v) == Put(d, k, v)
setdefault(d, k, v) == IF k \in DOMAIN d THEN d ELSE Put(d, k, v)
Get(d, k) == IF k \in DOMAIN d THEN d[k] ELSE NoId

\* Python truthiness of an optional project id: None and "" are false.
Truthy(s) == s # NoId /\ s # <<>>

\* json.load / json.loads: ok is FALSE where the call raises JSONDecodeError.
json_load(text) == [ok |-> text.kind # "malformed",
                    isdict |-> text.kind = "object",
                    obj |-> text.obj]
\* json.dump of a parsed value.
json_dump(parsed) ==
    [kind |-> IF parsed.isdict THEN "object" ELSE "nonobject", obj |-> parsed.obj]

\* os.path.abspath, with the repository root as the working directory.
abspath(p) == CASE p = KEY_FILE -> "/repo/sa-key.json"
                [] OTHER -> p

----------------------------------------------------------------------------
(* deploy.py *)

Raised(fs) == [raised |-> TRUE, env |-> EmptyDict, tmp_key_path |-> None, fs |-> fs]

\* setup_credentials with the impersonation branch tried before the
\* GCP_SA_KEY branch (the order the module docstring lists them in).
setup_credentials_email_first(environ, fs, tmpname) ==
    IF KEY_FILE \in DOMAIN fs THEN
        LET creds == json_load(fs[KEY_FILE]) IN
        IF ~creds.ok \/ ~creds.isdict \/ "project_id" \notin DOMAIN creds.obj
        THEN Raised(fs)
        ELSE [raised |-> FALSE,
              env |-> setdefault(Put(environ, GAC, abspath(KEY_FILE)),
                                 "GCP_PROJECT_ID", creds.obj["project_id"]),
              tmp_key_path |-> None,
              fs |-> fs]
    ELSE IF "GCP_SA_EMAIL" \in DOMAIN environ THEN
        [raised |-> FALSE,
         env |-> Put(environ, GISA, environ["GCP_SA_EMAIL"]),
         tmp_key_path |-> None,
         fs |-> fs]
    ELSE IF "GCP_SA_KEY" \in DOMAIN environ THEN
        LET creds == json_load(environ["GCP_SA_KEY"]) IN
        IF ~creds.ok THEN Raised(fs)
        ELSE LET written == Put(fs, tmpname, json_dump(creds)) IN
             IF ~creds.isdict \/ "project_id" \notin DOMAIN creds.obj
             THEN Raised(written)
             ELSE [raised |-> FALSE,
                   env |-> setdefault(Put(environ, GAC, tmpname),
                                      "GCP_PROJECT_ID", creds.obj["project_id"]),
                   tmp_key_path |-> tmpname,
                   fs |-> written]
    ELSE [raised |-> FALSE, env |-> environ, tmp_key_path |-> None, fs |-> fs]

\* deploy.setup_credentials: what it returns, or that it raised, and the
\* file system it leaves.  tmpname is the name NamedTemporaryFile picks.
setup_credentials(environ, fs, tmpname) ==
    IF KEY_FILE \in DOMAIN fs THEN
        LET creds == json_load(fs[KEY_FILE]) IN
        IF ~creds.ok THEN Raised(fs)
        ELSE IF ~creds.isdict \/ "project_id" \notin DOMAIN creds.obj THEN Raised(fs)
        ELSE [raised |-> FALSE,
              env |-> setdefault(Put(environ, GAC, abspath(KEY_FILE)),
                                 "GCP_PROJECT_ID", creds.obj["project_id"]),
              tmp_key_path |-> None,
              fs |-> fs]
    ELSE IF "GCP_SA_KEY" \in DOMAIN environ THEN
        LET creds == json_load(environ["GCP_SA_KEY"]) IN
        IF ~creds.ok THEN Raised(fs)
        ELSE LET written == Put(fs, tmpname, json_dump(creds)) IN
             IF ~creds.isdict \/ "project_id" \notin DOMAIN creds.obj
             THEN Raised(written)
             ELSE [raised |-> FALSE,
                   env |-> setdefault(Put(environ, GAC, tmpname),
                                      "GCP_PROJECT_ID", creds.obj["project_id"]),
                   tmp_key_path |-> tmpname,
                   fs |-> written]
    ELSE IF "GCP_SA_EMAIL" \in DOMAIN environ THEN
        [raised |-> FALSE,
         env |-> Put(environ, GISA, environ["GCP_SA_EMAIL"]),
         tmp_key_path |-> None,
         fs |-> fs]
    ELSE [raised |-> FALSE, env |-> environ, tmp_key_path |-> None, fs |-> fs]

\* get_project_id that tests "is None" instead of truthiness: an empty id
\* passes.
get_project_id_is_none(env, environ) ==
    LET a == Get(env, "GCP_PROJECT_ID")
        b == Get(environ, "GCP_PROJECT_ID")
    IN IF Truthy(a) THEN a ELSE b

\* deploy.get_project_id: the id, or NoId where it calls sys.exit(1).
get_project_id(env, environ) ==
    LET a == Get(env, "GCP_PROJECT_ID")
        b == Get(environ, "GCP_PROJECT_ID")
        project_id == IF Truthy(a) THEN a ELSE b
    IN IF Truthy(project_id) THEN project_id ELSE NoId

\* The finally block of deploy.main.
Finally(fs, path) == IF path # None THEN Del(fs, path) ELSE fs

\* One entry of the command log: the command, the project id its command
\* line names (NoId when it names none), the environment it ran with and
\* the status it returned.
Cmd(name, project, env, rc) ==
    [cmd |-> name, project |-> project, env |-> env, rc |-> rc]

\* run(cmd, env): the environment the child gets (env or os.environ.copy()).
run_env(env) == IF env = EmptyDict THEN osenv ELSE env

\* The process environments a deploy run may start in.
Opt(k, vals) == {EmptyDict} \cup {k :> v : v \in vals}
Environs ==
    {a @@ b @@ c @@ d @@ e :
        a \in Opt("GCP_SA_KEY", KeyTexts),
        b \in Opt("GCP_SA_EMAIL", {"deployer@p1.iam"}),
        c \in Opt("GCP_PROJECT_ID", ProjectIds \cup {<<>>}),
        d \in Opt(GAC, {"/home/me/adc.json"}),
        e \in Opt(GISA, {"other@p2.iam"})}

\* The file systems a run may start in: sa-key.json absent or present.
FileSystems == {EmptyDict} \cup {KEY_FILE :> t : t \in KeyTexts}

\* The deploy process is not part of the run.
DeployIdle ==
    /\ osenv = EmptyDict
    /\ dpc = "idle"
    /\ denv = EmptyDict
    /\ tmp_key_path = None
    /\ dproject = NoId
    /\ dcmds = <<>>
    /\ dexit = Running

\* The init process is not part of the run.
InitIdle ==
    /\ iargs = [project_id |-> NoId, billing_account |-> None, github_repo |-> None]
    /\ ipc = "idle"
    /\ iproject = NoId
    /\ icmds = <<>>
    /\ iexit = Running
    /\ secrets = EmptyDict
    /\ nkeys = 0
    /\ runs = 0
    /\ prev = <<>>

\* The check process is not part of the run.
CheckIdle ==
    /\ dirs = {}
    /\ cenviron = EmptyDict
    /\ cpc = "idle"
    /\ cproject = NoId
    /\ ccmds = <<>>
    /\ cexit = Running

InitDeploy ==
    /\ files \in FileSystems
    /\ osenv \in Environs
    /\ dpc = "setup_credentials"
    /\ denv = EmptyDict
    /\ tmp_key_path = None
    /\ dproject = NoId
    /\ dcmds = <<>>
    /\ dexit = Running
    /\ InitIdle
    /\ CheckIdle

\* deploy.main line 72.  An exception raised inside setup_credentials ends
\* the process with status 1; nothing of main's try block has started.
DeploySetupCredentials ==
    /\ dpc = "setup_credentials"
    /\ \E tmpname \in TmpNames \ DOMAIN files :
        LET r == setup_credentials(osenv, files, tmpname) IN
        /\ files' = r.fs
        /\ IF r.raised
           THEN /\ dpc' = "exited"
                /\ dexit' = 1
                /\ UNCHANGED <<denv, tmp_key_path>>
           ELSE /\ dpc' = "get_project_id"
                /\ denv' = r.env
                /\ tmp_key_path' = r.tmp_key_path
                /\ UNCHANGED dexit
    /\ UNCHANGED <<osenv, dproject, dcmds, ivars, cvars>>

\* deploy.main lines 73-77: sys.exit(1) in get_project_id happens before
\* the try block is entered.
DeployGetProjectId ==
    /\ dpc = "get_project_id"
    /\ LET project_id == get_project_id(denv, osenv) IN
       IF project_id = NoId
       THEN /\ dpc' = "exited"
            /\ dexit' = 1
            /\ UNCHANGED <<denv, dproject>>
       ELSE /\ dpc' = "gcloud_describe"
            /\ dproject' = project_id
            /\ denv' = Put(Put(denv, "GCP_PROJECT_ID", project_id),
                           "GOOGLE_PROJECT", project_id)
            /\ UNCHANGED dexit
    /\ UNCHANGED <<files, osenv, tmp_key_path, dcmds, ivars, cvars>>

\* run(...) without check=True: the next command is issued whatever the
\* status, and the process ends with status 0 after the last one.
DeployStep_unchecked(name, project, env, next) ==
    /\ dpc = name
    /\ \E rc \in {0, 1} :
        /\ dcmds' = Append(dcmds, Cmd(name, project, run_env(env), rc))
        /\ IF next # "exited"
           THEN /\ dpc' = next
                /\ UNCHANGED <<files, dexit>>
           ELSE /\ dpc' = "exited"
                /\ files' = Finally(files, tmp_key_path)
                /\ dexit' = 0
    /\ UNCHANGED <<osenv, denv, tmp_key_path, dproject, ivars, cvars>>

\* One run(...) call of the try block: the command is issued; status 0
\* moves on to next, any other status raises CalledProcessError, the
\* finally block runs and the process ends with status 1.
DeployStep(name, project, env, next) ==
    /\ dpc = name
    /\ \E rc \in {0, 1} :
        /\ dcmds' = Append(dcmds, Cmd(name, project, run_env(env), rc))
        /\ IF rc = 0 /\ next # "exited"
           THEN /\ dpc' = next
                /\ UNCHANGED <<files, dexit>>
           ELSE /\ dpc' = "exited"
                /\ files' = Finally(files, tmp_key_path)
                /\ dexit' = IF rc = 0 THEN 0 ELSE 1
    /\ UNCHANGED <<osenv, denv, tmp_key_path, dproject, ivars, cvars>>

DeployGcloudDescribe ==
    DeployStep("gcloud_describe", dproject, denv, "terraform_init")
DeployTerraformInit ==
    DeployStep("terraform_init", NoId, denv, "terraform_plan")
DeployTerraformPlan ==
    DeployStep("terraform_plan", dproject, denv, "helm_template")
DeployHelmTemplate ==
    DeployStep("helm_template", dproject, EmptyDict, "check_py")
DeployCheckPy ==
    DeployStep("check_py", NoId, denv, "exited")

NextDeploy ==
    \/ DeploySetupCredentials
    \/ DeployGetProjectId
    \/ DeployGcloudDescribe
    \/ DeployTerraformInit
    \/ DeployTerraformPlan
    \/ DeployHelmTemplate
    \/ DeployCheckPy

SpecDeploy == InitDeploy /\ [][NextDeploy]_vars

----------------------------------------------------------------------------
(* init.py *)

GITHUB_REPO_DEFAULT == "krisrowe/minimal-cicd-sample"
POOL_ID == "github-pool"
PROVIDER_ID == "github-provider"

\* "min-cicd-sample-", character by character.
PREFIX == <<"m", "i", "n", "-", "c", "i", "c", "d", "-",
            "s", "a", "m", "p", "l", "e", "-">>
SuffixLen == 6
\* string.ascii_lowercase + string.digits.
Alphabet == {"a", "b", "c", "d", "e", "f", "g", "h", "i", "j", "k", "l", "m",
             "n", "o", "p", "q", "r", "s", "t", "u", "v", "w", "x", "y", "z",
             "0", "1", "2", "3", "4", "5", "6", "7", "8", "9"}
\* The characters random.choices draws in the model.
Drawn == {"k", "7"}
Suffixes == [1..SuffixLen -> Drawn]
\* The suffixes a whole init run is explored with.
RunSuffixes == {[i \in 1..SuffixLen |-> "k"],
                [i \in 1..SuffixLen |-> IF i % 2 = 0 THEN "7" ELSE "k"]}

\* Exit statuses an external command returns in the model.
RCs == {0, 1}

\* exists that takes a command that ran at all for a resource that exists.
exists_any_status(rc) == rc \in {0, 1}

\* init.exists: the probe's verdict from the command's status.
exists(rc) == rc = 0

\* run with check=False: a failing command raises nothing.
run_unchecked(rc) == FALSE

\* init.run with check=True: whether subprocess.run raises.
run_raises(rc) == rc # 0

\* resolve_project_id without the sa-key.json lookup.
resolve_project_id_no_key_file(args, fs, suffix) ==
    IF Truthy(args.project_id)
    THEN [raised |-> FALSE, id |-> args.project_id]
    ELSE [raised |-> FALSE, id |-> PREFIX \o suffix]

\* resolve_project_id that consults sa-key.json before the argument.
resolve_project_id_file_first(args, fs, suffix) ==
    LET generated == [raised |-> FALSE, id |-> PREFIX \o suffix] IN
    IF KEY_FILE \in DOMAIN fs
    THEN LET data == json_load(fs[KEY_FILE]) IN
         IF ~data.ok \/ ~data.isdict THEN [raised |-> TRUE, id |-> NoId]
         ELSE IF Truthy(Get(data.obj, "project_id"))
              THEN [raised |-> FALSE, id |-> data.obj["project_id"]]
              ELSE IF Truthy(args.project_id)
                   THEN [raised |-> FALSE, id |-> args.project_id]
                   ELSE generated
    ELSE IF Truthy(args.project_id)
    THEN [raised |-> FALSE, id |-> args.project_id]
    ELSE generated

\* init.resolve_project_id: the id it returns, or that it raised.
resolve_project_id(args, fs, suffix) ==
    LET generated == [raised |-> FALSE, id |-> PREFIX \o suffix] IN
    IF Truthy(args.project_id)
    THEN [raised |-> FALSE, id |-> args.project_id]
    ELSE IF KEY_FILE \in DOMAIN fs
    THEN LET data == json_load(fs[KEY_FILE]) IN
         IF ~data.ok \/ ~data.isdict THEN [raised |-> TRUE, id |-> NoId]
         ELSE IF Truthy(Get(data.obj, "project_id"))
              THEN [raised |-> FALSE, id |-> data.obj["project_id"]]
              ELSE generated
    ELSE generated

\* sa_email = f"{sa_name}@{project_id}.iam.gserviceaccount.com"
sa_email(pid) == <<"deployer", "@", pid, ".iam.gserviceaccount.com">>

\* What "providers describe --format='value(name)'" prints for a project.
full_provider(pid) == <<"projects", pid, POOL_ID, PROVIDER_ID>>

\* The key file "keys create" writes: the n-th key of the project's account.
KeyText(pid, n) == JsonObject(("project_id" :> pid) @@ ("private_key_id" :> n))

\* One entry of init's command log.
Entry(c, rc) == [cmd |-> c, rc |-> rc, project |-> iproject]
Push(name, value, rc) ==
    [cmd |-> "secret_set", rc |-> rc, project |-> iproject,
     name |-> name, value |-> value]

\* The secrets a run has set, from its command log: name -> value.
Pushed(log) ==
    {i \in DOMAIN log : log[i].cmd = "secret_set" /\ log[i].rc = 0}
Published(log) ==
    [n \in {log[i].name : i \in Pushed(log)} |->
        log[CHOOSE i \in Pushed(log) : log[i].name = n].value]

\* The commands of a run that create a probed resource.
CreateCmds == {"projects_create", "sa_create", "pool_create", "provider_create"}
Creates(log) == {i \in DOMAIN log : log[i].cmd \in CreateCmds}

\* The process ends: sys.exit(1), an uncaught exception, or the end of main.
\* prev keeps, of the run that ended, what a later run can be compared with.
IExitAs(log, status, pid) ==
    /\ ipc' = "exited"
    /\ iexit' = status
    /\ icmds' = log
    /\ prev' = Append(prev, [exit |-> status, project |-> pid,
                             published |-> Published(log)])

IExit(log, status) == IExitAs(log, status, iproject)

IGoto(next, log) ==
    /\ ipc' = next
    /\ icmds' = log
    /\ UNCHANGED <<iexit, prev>>

\* The command lines init.py may be started with.
ArgSets ==
    [project_id : {NoId, <<>>, P1},
     billing_account : {None, "BILL-1"},
     github_repo : {GITHUB_REPO_DEFAULT}]

\* init.main line 121.
InitResolveProjectId(suffixes) ==
    /\ ipc = "resolve_project_id"
    /\ \E suffix \in suffixes :
        LET r == resolve_project_id(iargs, files, suffix) IN
        /\ iproject' = r.id
        /\ IF r.raised THEN IExitAs(icmds, 1, r.id) ELSE IGoto("project", icmds)
    /\ UNCHANGED <<files, iargs, secrets, nkeys, runs, dvars, cvars>>

\* A step "if exists(describe): skip, else: run(create)".  The project step
\* alone has needs_billing: sys.exit(1) when no billing account was given.
ProbeThenCreate(step, describe, create, needs_billing, next) ==
    /\ ipc = step
    /\ \E prc \in RCs :
        LET probed == Append(icmds, Entry(describe, prc)) IN
        IF exists(prc) THEN IGoto(next, probed)
        ELSE IF needs_billing /\ iargs.billing_account = None
        THEN IExit(probed, 1)
        ELSE \E crc \in RCs :
                LET created == Append(probed, Entry(create, crc)) IN
                IF run_raises(crc) THEN IExit(created, 1) ELSE IGoto(next, created)
    /\ UNCHANGED <<files, iargs, iproject, secrets, nkeys, runs, dvars, cvars>>

\* A step "run(cmd, check=False)": the status is ignored.
Mandatory_unchecked(step, cmd, next) ==
    /\ ipc = step
    /\ \E rc \in RCs : IGoto(next, Append(icmds, Entry(cmd, rc)))
    /\ UNCHANGED <<files, iargs, iproject, secrets, nkeys, runs, dvars, cvars>>

\* A step "run(cmd)" with check=True.
Mandatory(step, cmd, next) ==
    /\ ipc = step
    /\ \E rc \in RCs :
        LET log == Append(icmds, Entry(cmd, rc)) IN
        IF run_raises(rc) THEN IExit(log, 1) ELSE IGoto(next, log)
    /\ UNCHANGED <<files, iargs, iproject, secrets, nkeys, runs, dvars, cvars>>

\* A step run("gh secret set ..."); after the last one main returns.
PushSecret(step, name, value, next) ==
    /\ ipc = step
    /\ \E rc \in RCs :
        LET log == Append(icmds, Push(name, value, rc)) IN
        IF run_raises(rc)
        THEN IExit(log, 1) /\ UNCHANGED secrets
        ELSE /\ secrets' = Put(secrets, name, value)
             /\ IF next = "exited" THEN IExit(log, 0) ELSE IGoto(next, log)
    /\ UNCHANGED <<files, iargs, iproject, nkeys, runs, dvars, cvars>>

\* The project step without the billing-account test.
InitProject_no_billing_test ==
    ProbeThenCreate("project", "projects_describe", "projects_create", FALSE, "billing")

\* init.main lines 128-137.
InitProject ==
    ProbeThenCreate("project", "projects_describe", "projects_create", TRUE, "billing")

\* init.main lines 139-142.
InitBilling ==
    /\ ipc = "billing"
    /\ IF iargs.billing_account # None
       THEN \E rc \in RCs :
                LET log == Append(icmds, Entry("billing_link", rc)) IN
                IF run_raises(rc) THEN IExit(log, 1) ELSE IGoto("org_policy", log)
       ELSE IGoto("org_policy", icmds)
    /\ UNCHANGED <<files, iargs, iproject, secrets, nkeys, runs, dvars, cvars>>

\* The policy reset issued through run(...), check=True.
InitOrgPolicyReset_checked == Mandatory("org_policy", "org_policy_reset", "apis")

\* init.main lines 144-153: the status is only printed.
InitOrgPolicyReset ==
    /\ ipc = "org_policy"
    /\ \E rc \in RCs : IGoto("apis", Append(icmds, Entry("org_policy_reset", rc)))
    /\ UNCHANGED <<files, iargs, iproject, secrets, nkeys, runs, dvars, cvars>>

\* API enablement that goes on to the role grant, past the service account.
InitEnableApis_skips_service_account == Mandatory("apis", "services_enable", "owner")

\* init.main lines 155-158.
InitEnableApis == Mandatory("apis", "services_enable", "service_account")

\* init.main lines 160-165.
InitServiceAccount ==
    ProbeThenCreate("service_account", "sa_describe", "sa_create", FALSE, "owner")

\* init.main lines 167-170.
InitGrantOwner == Mandatory("owner", "add_owner_binding", "key_export")

\* init.main lines 172-179, 188-190: the key export and the mode it selects.
InitKeyExport ==
    /\ ipc = "key_export"
    /\ \E rc \in RCs :
        LET log == Append(icmds, Entry("keys_create", rc)) IN
        IF rc = 0
        THEN /\ files' = Put(files, KEY_FILE, KeyText(iproject, nkeys + 1))
             /\ nkeys' = nkeys + 1
             /\ IGoto("push_sa_key", log)
        ELSE /\ UNCHANGED <<files, nkeys>>
             /\ IGoto("wif_pool", log)
    /\ UNCHANGED <<iargs, iproject, secrets, runs, dvars, cvars>>

\* init.main line 183: gh secret set GCP_SA_KEY < sa-key.json
InitPushSaKey ==
    PushSecret("push_sa_key", "GCP_SA_KEY", files[KEY_FILE], "push_project_id")

\* The key-file branch without its else: setup_wif runs after it as well.
InitPushProjectId_then_wif ==
    PushSecret("push_project_id", "GCP_PROJECT_ID", iproject, "wif_pool")

\* init.main lines 184-187.
InitPushProjectId ==
    PushSecret("push_project_id", "GCP_PROJECT_ID", iproject, "exited")

\* setup_wif lines 68-74.
WifPool == ProbeThenCreate("wif_pool", "pool_describe", "pool_create", FALSE, "wif_provider")

\* The provider step followed at once by the secret pushes.
WifProvider_then_push ==
    ProbeThenCreate("wif_provider", "provider_describe", "provider_create", FALSE,
                    "wif_push_provider")

\* setup_wif lines 76-87.
WifProvider ==
    ProbeThenCreate("wif_provider", "provider_describe", "provider_create", FALSE,
                    "wif_project_number")

\* setup_wif lines 91-92.
WifProjectNumber == Mandatory("wif_project_number", "project_number", "wif_binding")

\* setup_wif lines 93-97.
WifBinding == Mandatory("wif_binding", "add_wif_binding", "wif_provider_name")

\* setup_wif lines 100-103.
WifProviderName == Mandatory("wif_provider_name", "provider_name", "wif_push_provider")

\* setup_wif line 107.
WifPushProvider ==
    PushSecret("wif_push_provider", "WIF_PROVIDER", full_provider(iproject),
               "wif_push_sa_email")

\* setup_wif line 108.
WifPushSaEmail ==
    PushSecret("wif_push_sa_email", "WIF_SA_EMAIL", sa_email(iproject),
               "wif_push_project_id")

\* setup_wif lines 109-110 and init.main lines 191-194.
WifPushProjectId ==
    PushSecret("wif_push_project_id", "GCP_PROJECT_ID", iproject, "exited")

MaxRuns == 2

\* The operator starts init.py again, in the directory the last run left.
StartRun ==
    /\ ipc = "exited"
    /\ runs < MaxRuns
    /\ iargs' \in ArgSets
    /\ ipc' = "resolve_project_id"
    /\ iproject' = NoId
    /\ icmds' = <<>>
    /\ iexit' = Running
    /\ runs' = runs + 1
    /\ UNCHANGED <<files, secrets, nkeys, prev, dvars, cvars>>

InitInit ==
    /\ files \in FileSystems
    /\ iargs \in ArgSets
    /\ ipc = "resolve_project_id"
    /\ iproject = NoId
    /\ icmds = <<>>
    /\ iexit = Running
    /\ secrets = EmptyDict
    /\ nkeys = 0
    /\ runs = 1
    /\ prev = <<>>
    /\ DeployIdle
    /\ CheckIdle

InitSteps ==
    \/ InitProject
    \/ InitBilling
    \/ InitOrgPolicyReset
    \/ InitEnableApis
    \/ InitServiceAccount
    \/ InitGrantOwner
    \/ InitKeyExport
    \/ InitPushSaKey
    \/ InitPushProjectId
    \/ WifPool
    \/ WifProvider
    \/ WifProjectNumber
    \/ WifBinding
    \/ WifProviderName
    \/ WifPushProvider
    \/ WifPushSaEmail
    \/ WifPushProjectId

\* One init run, every suffix random.choices can draw.
NextInit == InitResolveProjectId(Suffixes) \/ InitSteps

SpecInit == InitInit /\ [][NextInit]_vars

\* Two init runs in a row.
NextRerun == InitResolveProjectId(RunSuffixes) \/ InitSteps \/ StartRun

SpecRerun == InitInit /\ [][NextRerun]_vars

----------------------------------------------------------------------------
(* Claims about deploy.py *)

Branch1 == KEY_FILE \in DOMAIN files
Branch2 == ~Branch1 /\ "GCP_SA_KEY" \in DOMAIN osenv
Branch3 == ~Branch1 /\ ~Branch2 /\ "GCP_SA_EMAIL" \in DOMAIN osenv
Branch4 == ~Branch1 /\ ~Branch2 /\ ~Branch3

TmpFiles == DOMAIN files \cap TmpNames

\* Key k is in env exactly as it is in the inherited environment.
Inherited(k) ==
    /\ k \in DOMAIN denv <=> k \in DOMAIN osenv
    /\ k \in DOMAIN denv => denv[k] = osenv[k]

\* C1: the environment setup_credentials returns never holds both
\* GOOGLE_APPLICATION_CREDENTIALS and GOOGLE_IMPERSONATE_SERVICE_ACCOUNT,
\* whatever the inherited environment holds.  (denv is empty until
\* setup_credentials has returned.)
C1_OneCredentialSource ==
    ~(GAC \in DOMAIN denv /\ GISA \in DOMAIN denv)

\* C2: in a run that takes branch 2, no temporary credential file is left
\* when the process has ended, on any exit path.
C2_TempFileGoneAtExit ==
    (Branch2 /\ dpc = "exited") => TmpFiles = {}

\* C3: when setup_credentials has returned, the result is that of the first
\* branch whose condition holds, in the order sa-key.json, GCP_SA_KEY,
\* GCP_SA_EMAIL, none; the inputs of later branches leave no trace in it.
C3_BranchPrecedence ==
    dpc = "get_project_id" =>
        /\ Branch1 =>
            /\ denv[GAC] = "/repo/sa-key.json"
            /\ tmp_key_path = None
            /\ TmpFiles = {}
            /\ Inherited(GISA)
        /\ Branch2 =>
            /\ tmp_key_path \in TmpNames
            /\ denv[GAC] = tmp_key_path
            /\ TmpFiles = {tmp_key_path}
            /\ files[tmp_key_path].obj = osenv["GCP_SA_KEY"].obj
            /\ Inherited(GISA)
        /\ Branch3 =>
            /\ denv[GISA] = osenv["GCP_SA_EMAIL"]
            /\ tmp_key_path = None
            /\ TmpFiles = {}
            /\ Inherited(GAC)
        /\ Branch4 =>
            /\ denv = osenv
            /\ tmp_key_path = None
            /\ TmpFiles = {}
        /\ \A k \in (DOMAIN denv \cup DOMAIN osenv) \ {GAC, GISA, "GCP_PROJECT_ID"} :
            Inherited(k)

\* C3 witness: sa-key.json wins although GCP_SA_KEY and GCP_SA_EMAIL are set.
C3_Witness ==
    /\ dpc = "get_project_id"
    /\ Branch1
    /\ {"GCP_SA_KEY", "GCP_SA_EMAIL"} \subseteq DOMAIN osenv
    /\ denv[GAC] = "/repo/sa-key.json"

NoProjectIdInput ==
    /\ KEY_FILE \notin DOMAIN files
    /\ "GCP_SA_KEY" \notin DOMAIN osenv
    /\ ~Truthy(Get(osenv, "GCP_PROJECT_ID"))

\* C4: a run with no sa-key.json, no GCP_SA_KEY and GCP_PROJECT_ID unset or
\* empty never issues an external command, never gets past get_project_id,
\* and ends with a non-zero status.
C4_NoProjectIdAborts ==
    NoProjectIdInput =>
        /\ dcmds = <<>>
        /\ dpc \in {"setup_credentials", "get_project_id", "exited"}
        /\ dpc = "exited" => dexit # 0
        /\ dpc # "exited" => ENABLED NextDeploy

\* C4 witness: such a run has ended, GCP_PROJECT_ID being set but empty.
C4_Witness ==
    /\ NoProjectIdInput
    /\ "GCP_PROJECT_ID" \in DOMAIN osenv
    /\ dpc = "exited"
    /\ dexit = 1

----------------------------------------------------------------------------
(* Claims about init.py *)

Idx(c) == {i \in DOMAIN icmds : icmds[i].cmd = c}
Last == icmds[Len(icmds)]
Exited == ipc = "exited"

WifPcs == {"wif_pool", "wif_provider", "wif_project_number", "wif_binding",
           "wif_provider_name", "wif_push_provider", "wif_push_sa_email",
           "wif_push_project_id"}
WifProbes == {"pool_describe", "provider_describe"}
WifMandatory == {"pool_create", "provider_create", "project_number",
                 "add_wif_binding", "provider_name", "secret_set"}
WifSecrets == {"WIF_PROVIDER", "WIF_SA_EMAIL", "GCP_PROJECT_ID"}

\* C5: the key export is issued at most once in a run; when it fails the run
\* is in setup_wif from then on and issues only setup_wif's commands; a
\* failing mandatory command of setup_wif is the last command of the run,
\* which has then ended with a non-zero status.
C5_KeyExportOnceWifFatal ==
    /\ Cardinality(Idx("keys_create")) <= 1
    /\ \A k \in Idx("keys_create") :
        icmds[k].rc # 0 =>
            /\ ipc \in WifPcs \cup {"exited"}
            /\ \A j \in (k + 1)..Len(icmds) :
                /\ icmds[j].cmd \in WifProbes \cup WifMandatory
                /\ icmds[j].cmd = "secret_set" => icmds[j].name \in WifSecrets
                /\ (icmds[j].cmd \in WifMandatory /\ icmds[j].rc # 0) =>
                        /\ j = Len(icmds)
                        /\ Exited
                        /\ iexit \notin {0, Running}

\* C5 witness: the key export failed, then the impersonation binding failed.
C5_Witness ==
    /\ Exited
    /\ iexit = 1
    /\ \E k \in Idx("keys_create") : icmds[k].rc = 1
    /\ Last.cmd = "add_wif_binding"
    /\ Last.rc = 1

Probes == {"projects_describe", "sa_describe", "pool_describe", "provider_describe"}
CreateOf(describe) ==
    CASE describe = "projects_describe" -> "projects_create"
      [] describe = "sa_describe" -> "sa_create"
      [] describe = "pool_describe" -> "pool_create"
      [] describe = "provider_describe" -> "provider_create"

\* Entry i + 1 of the log is the create command that belongs to probe i.
CreateFollows(i) ==
    /\ i < Len(icmds)
    /\ icmds[i + 1].cmd = CreateOf(icmds[i].cmd)

\* Every create command directly follows its own probe, which failed.
CreatesAreProbed ==
    \A j \in Creates(icmds) :
        /\ j > 1
        /\ icmds[j - 1].cmd \in Probes
        /\ icmds[j].cmd = CreateOf(icmds[j - 1].cmd)
        /\ icmds[j - 1].rc # 0

\* C7 as stated: a probe with a non-zero status is always followed by the
\* create of its resource and never ends the run; a probe with status zero
\* never is; no create is issued without its failed probe.
C7_CreateIffProbeFailed ==
    /\ CreatesAreProbed
    /\ \A i \in DOMAIN icmds :
        icmds[i].cmd \in Probes =>
            (icmds[i].rc # 0 <=> CreateFollows(i))

\* C7 amended: as C7, except that the project probe with a non-zero status
\* and no billing account ends the run with status 1 and no create.
C7_CreateIffProbeFailedOrBilling ==
    /\ CreatesAreProbed
    /\ \A i \in DOMAIN icmds :
        icmds[i].cmd \in Probes =>
            IF icmds[i].cmd = "projects_describe" /\ icmds[i].rc # 0
               /\ iargs.billing_account = None
            THEN i = Len(icmds) /\ Exited /\ iexit = 1
            ELSE icmds[i].rc # 0 <=> CreateFollows(i)

\* C7 witness: the project probe failed and the project was created, the
\* service-account probe succeeded and nothing was created for it.
C7_Witness ==
    /\ \E i \in Idx("projects_describe") : icmds[i].rc = 1 /\ CreateFollows(i)
    /\ \E i \in Idx("sa_describe") :
        icmds[i].rc = 0 /\ i < Len(icmds) /\ icmds[i + 1].cmd = "add_owner_binding"

\* Commands issued through run(...) with check=True.
CheckedCmds == {"projects_create", "billing_link", "services_enable", "sa_create",
                "add_owner_binding", "secret_set", "pool_create", "provider_create",
                "project_number", "add_wif_binding", "provider_name"}

\* The run ended at sys.exit(1) of the project step.
BillingAbort ==
    /\ Len(icmds) = 1
    /\ Last.cmd = "projects_describe"
    /\ Last.rc # 0
    /\ iargs.billing_account = None

\* C8 as stated: a run that has ended with a non-zero status ended either
\* before its first command (no project id) or at the billing-account test.
C8_NonZeroOnlyIdOrBilling ==
    (Exited /\ iexit # 0) => (icmds = <<>> \/ BillingAbort)

\* C8 amended: a run ends with status 1 exactly when resolve_project_id
\* raised, the billing-account test failed, or its last command is one run
\* with check=True that returned non-zero; it ends with status 0 exactly
\* when its last command is the push of GCP_PROJECT_ID with status zero.
\* The statuses of the probes, the policy reset and the key export do not
\* enter.
C8_ExitStatus ==
    Exited =>
        /\ iexit \in {0, 1}
        /\ iexit = 1 <=>
            \/ icmds = <<>>
            \/ BillingAbort
            \/ Len(icmds) > 0 /\ Last.cmd \in CheckedCmds /\ Last.rc # 0
        /\ iexit = 0 <=>
            /\ Len(icmds) > 0
            /\ Last.cmd = "secret_set"
            /\ Last.name = "GCP_PROJECT_ID"
            /\ Last.rc = 0
        /\ \A i \in 1..(Len(icmds) - 1) : icmds[i].cmd \in CheckedCmds => icmds[i].rc = 0

\* C8 witness: policy reset and key export failed without ending the run,
\* then the failed impersonation binding ended it with status 1.
C8_Witness ==
    /\ Exited
    /\ iexit = 1
    /\ \E i \in Idx("org_policy_reset") : icmds[i].rc = 1
    /\ \E i \in Idx("keys_create") : icmds[i].rc = 1
    /\ Last.cmd = "provider_name"
    /\ Last.rc = 1

\* C9: when the project probe reports absence and no billing account was
\* given, the probe is the only command of the run and the run has ended
\* with a non-zero status.
C9_NoBillingNoCreate ==
    (iargs.billing_account = None
        /\ \E i \in Idx("projects_describe") : icmds[i].rc # 0)
    => /\ Len(icmds) = 1
       /\ Idx("projects_create") = {}
       /\ Exited
       /\ iexit \notin {0, Running}

\* C9 witness: such a run, its project id auto-generated.
C9_Witness ==
    /\ iargs.billing_account = None
    /\ iargs.project_id = NoId
    /\ Len(icmds) = 1
    /\ Last.cmd = "projects_describe"
    /\ Last.rc = 1
    /\ Len(iproject) = Len(PREFIX) + SuffixLen
    /\ Exited

\* The contents of sa-key.json as resolve_project_id sees them (the file is
\* not written before the key export).
KeyFileUsable ==
    /\ KEY_FILE \in DOMAIN files
    /\ files[KEY_FILE].kind = "object"
    /\ Truthy(Get(files[KEY_FILE].obj, "project_id"))
KeyFileUnreadable ==
    /\ KEY_FILE \in DOMAIN files
    /\ files[KEY_FILE].kind # "object"

IsGenerated(id) ==
    /\ Len(id) = Len(PREFIX) + 6
    /\ SubSeq(id, 1, Len(PREFIX)) = PREFIX
    /\ \A i \in (Len(PREFIX) + 1)..Len(id) : id[i] \in Alphabet

\* resolve_project_id has just returned / has raised.
Resolved == ipc = "project"
ResolveRaised == Exited /\ icmds = <<>>

\* C10 as stated (an empty argument counting as not given): the call always
\* returns, and returns the argument, else the usable project_id of
\* sa-key.json, else a generated id; the id is never empty.
C10_ResolveAlwaysReturns ==
    /\ ~ResolveRaised
    /\ Resolved =>
        /\ Truthy(iproject)
        /\ IF Truthy(iargs.project_id) THEN iproject = iargs.project_id
           ELSE IF KeyFileUsable THEN iproject = files[KEY_FILE].obj["project_id"]
           ELSE IsGenerated(iproject)

\* C10 amended: as C10, except that with no (non-empty) argument and an
\* sa-key.json that is not a JSON object the call raises and the run ends
\* with status 1 before any command; whenever it returns, the id is not
\* empty.
C10_ResolvePrecedence ==
    /\ ResolveRaised =>
        /\ ~Truthy(iargs.project_id)
        /\ KeyFileUnreadable
        /\ iexit = 1
    /\ Resolved =>
        /\ Truthy(iproject)
        /\ ~(~Truthy(iargs.project_id) /\ KeyFileUnreadable)
        /\ IF Truthy(iargs.project_id) THEN iproject = iargs.project_id
           ELSE IF KeyFileUsable THEN iproject = files[KEY_FILE].obj["project_id"]
           ELSE IsGenerated(iproject)

\* C10 witness: the argument wins over a usable sa-key.json naming another
\* project.
C10_Witness ==
    /\ Resolved
    /\ iargs.project_id = P1
    /\ KeyFileUsable
    /\ files[KEY_FILE].obj["project_id"] = P2
    /\ iproject = P1

AllProbesZero == \A i \in DOMAIN icmds : icmds[i].cmd \in Probes => icmds[i].rc = 0

\* C6: when the first run ended with status 0 and the second run, on the
\* same project with every probe reporting existence, has ended with
\* status 0 too, the second run issued no create command for a probed
\* resource and set the same secrets to the same values as the first.
C6_RerunSameSecrets ==
    (/\ runs = 2
     /\ Len(prev) = 2
     /\ prev[1].exit = 0
     /\ prev[2].exit = 0
     /\ prev[2].project = prev[1].project
     /\ Exited
     /\ AllProbesZero)
    => /\ Creates(icmds) = {}
       /\ prev[2].published = prev[1].published


\* C11 as stated: whenever sa-key.json is present (as an object with a
\* non-empty project_id), resolution returns exactly that field.
C11_KeyFileAlwaysWins ==
    (Resolved /\ KeyFileUsable) => iproject = files[KEY_FILE].obj["project_id"]

\* C11 amended: with sa-key.json present as an object with a non-empty
\* project_id, resolution returns that field unless a non-empty positional
\* argument was given, which is returned instead; in neither case is an id
\* generated.
C11_KeyFileWinsWithoutArgument ==
    (Resolved /\ KeyFileUsable) =>
        /\ ~IsGenerated(iproject)
        /\ ~Truthy(iargs.project_id) => iproject = files[KEY_FILE].obj["project_id"]
        /\ Truthy(iargs.project_id) => iproject = iargs.project_id

\* C11 witness: no argument, sa-key.json names p2, and p2 is returned.
C11_Witness ==
    /\ Resolved
    /\ iargs.project_id = NoId
    /\ KeyFileUsable
    /\ iproject = P2


KeyFileSecrets == {"GCP_SA_KEY", "GCP_PROJECT_ID"}

\* C12: a run issues the key export at most once and sets secrets only after
\* it; after a successful export it sets only GCP_SA_KEY and GCP_PROJECT_ID,
\* after a failed one only WIF_PROVIDER, WIF_SA_EMAIL and GCP_PROJECT_ID; a
\* run that ended with status 0 has set exactly the secrets of its mode, to
\* the contents of sa-key.json and the project id, or to the provider name,
\* the service-account e-mail and the project id.
C12_ModeDeterminesSecrets ==
    LET pub == Published(icmds) IN
    /\ Cardinality(Idx("keys_create")) <= 1
    /\ ~("GCP_SA_KEY" \in DOMAIN pub
            /\ {"WIF_PROVIDER", "WIF_SA_EMAIL"} \cap DOMAIN pub # {})
    /\ \A j \in Idx("secret_set") :
        \E k \in Idx("keys_create") :
            /\ k < j
            /\ icmds[j].name \in (IF icmds[k].rc = 0 THEN KeyFileSecrets ELSE WifSecrets)
    /\ (Exited /\ iexit = 0) =>
        \E k \in Idx("keys_create") :
            IF icmds[k].rc = 0
            THEN pub = ("GCP_SA_KEY" :> files[KEY_FILE]) @@ ("GCP_PROJECT_ID" :> iproject)
            ELSE pub = ("WIF_PROVIDER" :> full_provider(iproject))
                        @@ ("WIF_SA_EMAIL" :>
                                <<"deployer", "@", iproject, ".iam.gserviceaccount.com">>)
                        @@ ("GCP_PROJECT_ID" :> iproject)

\* C12 witness: a run in FederatedMode that ended with status 0 and set the
\* three WIF secrets.
C12_Witness ==
    /\ Exited
    /\ iexit = 0
    /\ \E k \in Idx("keys_create") : icmds[k].rc = 1
    /\ DOMAIN Published(icmds) = WifSecrets


\* The step of init.main a command belongs to (8: after the key export).
StepOf(c) ==
    CASE c \in {"projects_describe", "projects_create"} -> 1
      [] c = "billing_link" -> 2
      [] c = "org_policy_reset" -> 3
      [] c = "services_enable" -> 4
      [] c \in {"sa_describe", "sa_create"} -> 5
      [] c = "add_owner_binding" -> 6
      [] c = "keys_create" -> 7
      [] OTHER -> 8

\* Before entry j: command c was issued; was issued and returned zero; the
\* resource probed by d was found or created.
IssuedBefore(c, j) == \E i \in 1..(j - 1) : icmds[i].cmd = c
DoneBefore(c, j) == \E i \in 1..(j - 1) : icmds[i].cmd = c /\ icmds[i].rc = 0
ProvidedBefore(d, j) ==
    \E i \in 1..(j - 1) :
        /\ icmds[i].cmd = d
        /\ \/ icmds[i].rc = 0
           \/ /\ i + 1 < j
              /\ icmds[i + 1].cmd = CreateOf(d)
              /\ icmds[i + 1].rc = 0

\* C13: the commands of a run appear in the order of the steps, no command
\* of steps 1-7 twice; a command issued with check=True that failed is the
\* last of the run; and before any command of a step every earlier step has
\* been carried out: the project found or created, billing linked exactly
\* if an account was given, the policy reset attempted, the APIs enabled,
\* the service account found or created, the owner role granted.
C13_StepOrder ==
    /\ \A i, j \in DOMAIN icmds :
        i < j =>
            /\ StepOf(icmds[i].cmd) <= StepOf(icmds[j].cmd)
            /\ StepOf(icmds[i].cmd) < 8 => icmds[i].cmd # icmds[j].cmd
    /\ \A i \in DOMAIN icmds :
        (icmds[i].cmd \in CheckedCmds /\ icmds[i].rc # 0) => i = Len(icmds)
    /\ \A j \in DOMAIN icmds :
        LET s == StepOf(icmds[j].cmd) IN
        /\ s > 1 => ProvidedBefore("projects_describe", j)
        /\ s > 2 => (DoneBefore("billing_link", j) <=> iargs.billing_account # None)
        /\ s > 3 => IssuedBefore("org_policy_reset", j)
        /\ s > 4 => DoneBefore("services_enable", j)
        /\ s > 5 => ProvidedBefore("sa_describe", j)
        /\ s > 6 => DoneBefore("add_owner_binding", j)
        /\ s > 7 => IssuedBefore("keys_create", j)

\* C13 witness: a run that created the project, linked billing, created the
\* service account and reached the key export.
C13_Witness ==
    /\ Idx("projects_create") # {}
    /\ Idx("billing_link") # {}
    /\ Idx("sa_create") # {}
    /\ Idx("keys_create") # {}


\* C17: whatever status the org-policy reset returned, the run is then at
\* API enablement, still running, and the next command it issues is the API
\* enablement; the reset is never the last command of a run that ended.
C17_ResetNeverFatal ==
    \A i \in Idx("org_policy_reset") :
        IF i = Len(icmds)
        THEN ipc = "apis" /\ iexit = Running
        ELSE icmds[i + 1].cmd = "services_enable"

\* C17 witness: the reset failed and the run went on to end with status 0
\* in KeyFileMode.
C17_Witness ==
    /\ \E i \in Idx("org_policy_reset") : icmds[i].rc = 1
    /\ \E k \in Idx("keys_create") : icmds[k].rc = 0
    /\ Exited
    /\ iexit = 0


\* C20: before any secret push of a run, every command issued with
\* check=True returned zero, steps 1-7 are complete and, when the key export
\* failed, so are pool, provider, project-number read, impersonation
\* binding and provider-name read; when it succeeded, sa-key.json exists.
\* The push of GCP_PROJECT_ID is the last command of its run.  A run that
\* ended non-zero on anything but a secret push has set no secret.
C20_SecretsAfterProvisioning ==
    /\ \A j \in Idx("secret_set") :
        /\ \A i \in 1..(j - 1) : icmds[i].cmd \in CheckedCmds => icmds[i].rc = 0
        /\ ProvidedBefore("projects_describe", j)
        /\ DoneBefore("services_enable", j)
        /\ ProvidedBefore("sa_describe", j)
        /\ DoneBefore("add_owner_binding", j)
        /\ \E k \in 1..(j - 1) :
            /\ icmds[k].cmd = "keys_create"
            /\ IF icmds[k].rc = 0
               THEN KEY_FILE \in DOMAIN files
               ELSE /\ ProvidedBefore("pool_describe", j)
                    /\ ProvidedBefore("provider_describe", j)
                    /\ DoneBefore("project_number", j)
                    /\ DoneBefore("add_wif_binding", j)
                    /\ DoneBefore("provider_name", j)
        /\ icmds[j].name = "GCP_PROJECT_ID" => j = Len(icmds)
    /\ (Exited /\ iexit # 0 /\ (icmds = <<>> \/ Last.cmd # "secret_set")) =>
        /\ Idx("secret_set") = {}
        /\ secrets = EmptyDict

\* C20 witness: FederatedMode, the provider creation failed, no secret set.
C20_Witness ==
    /\ Exited
    /\ iexit = 1
    /\ \E k \in Idx("keys_create") : icmds[k].rc = 1
    /\ Last.cmd = "provider_create"
    /\ secrets = EmptyDict


----------------------------------------------------------------------------
(* deploy.py: exit status, project id, environment of the commands *)

\* The downstream commands in the order deploy.main issues them.
Downstream ==
    <<"gcloud_describe", "terraform_init", "terraform_plan", "helm_template",
      "check_py">>

\* C14: a deploy run that ended has status 0 exactly when the project id
\* was resolved and all five downstream commands were issued and returned
\* zero; the commands are issued in order, a command that returned
\* non-zero is the last one issued and the run then ends non-zero.
C14_ExitZeroIffAllSucceed ==
    /\ Len(dcmds) <= Len(Downstream)
    /\ \A i \in DOMAIN dcmds :
        /\ dcmds[i].cmd = Downstream[i]
        /\ dcmds[i].rc # 0 => i = Len(dcmds) /\ dpc = "exited" /\ dexit # 0
    /\ dpc = "exited" =>
        (dexit = 0 <=>
            /\ dproject # NoId
            /\ Len(dcmds) = Len(Downstream)
            /\ \A i \in DOMAIN dcmds : dcmds[i].rc = 0)

\* C14 witness: terraform plan failed; the run ended non-zero without helm
\* or check.py.
C14_Witness ==
    /\ dpc = "exited"
    /\ dexit # 0
    /\ Len(dcmds) = 3
    /\ dcmds[3].cmd = "terraform_plan"
    /\ dcmds[3].rc # 0


\* The project_id of the credential JSON that the branch taken parsed.
CredsProjectId ==
    IF Branch1 THEN files[KEY_FILE].obj["project_id"]
    ELSE osenv["GCP_SA_KEY"].obj["project_id"]

\* C16 as stated: in every branch the returned context holds GCP_PROJECT_ID,
\* with the inherited value when the base environment has one.
C16_EveryBranchSeeds ==
    dpc = "get_project_id" =>
        /\ "GCP_PROJECT_ID" \in DOMAIN denv
        /\ "GCP_PROJECT_ID" \in DOMAIN osenv =>
            denv["GCP_PROJECT_ID"] = osenv["GCP_PROJECT_ID"]

\* C16 amended: a GCP_PROJECT_ID of the base environment is returned
\* unchanged in every branch; when it is absent, branches 1 and 2 return the
\* project_id of the credential JSON and branches 3 and 4 return none.
C16_KeyBranchesSeed ==
    dpc = "get_project_id" =>
        IF "GCP_PROJECT_ID" \in DOMAIN osenv
        THEN /\ "GCP_PROJECT_ID" \in DOMAIN denv
             /\ denv["GCP_PROJECT_ID"] = osenv["GCP_PROJECT_ID"]
        ELSE IF Branch1 \/ Branch2
        THEN /\ "GCP_PROJECT_ID" \in DOMAIN denv
             /\ denv["GCP_PROJECT_ID"] = CredsProjectId
        ELSE "GCP_PROJECT_ID" \notin DOMAIN denv

\* C16 witness: sa-key.json names p2 while the base environment names p1;
\* the returned context keeps p1.
C16_Witness ==
    /\ dpc = "get_project_id"
    /\ Branch1
    /\ "GCP_PROJECT_ID" \in DOMAIN osenv
    /\ osenv["GCP_PROJECT_ID"] = P1
    /\ CredsProjectId = P2
    /\ denv["GCP_PROJECT_ID"] = P1


\* C19: every command issued so far ran with the context of the run (what
\* setup_credentials returned, with GCP_PROJECT_ID and GOOGLE_PROJECT
\* added), none with the inherited process environment.
C19_AllCommandsUseContext ==
    \A i \in DOMAIN dcmds :
        /\ dcmds[i].env = denv
        /\ dcmds[i].env["GCP_PROJECT_ID"] = dproject
        /\ dcmds[i].env["GOOGLE_PROJECT"] = dproject


----------------------------------------------------------------------------
(* check.py *)

\* check_structure line 25.
required == {"terraform", "helm", "scripts"}

\* check.check_structure: TRUE when every required directory exists.
check_structure(ds) == \A d \in required : d \in ds

\* check.load_credentials: raised where json.load raises; found is FALSE
\* where it returns None; creds is the parsed value otherwise.
load_credentials(fs, environ) ==
    IF KEY_FILE \in DOMAIN fs THEN
        LET creds == json_load(fs[KEY_FILE]) IN
        [raised |-> ~creds.ok, found |-> TRUE, creds |-> creds]
    ELSE IF "GCP_SA_KEY" \in DOMAIN environ THEN
        LET creds == json_load(environ["GCP_SA_KEY"]) IN
        [raised |-> ~creds.ok, found |-> TRUE, creds |-> creds]
    ELSE [raised |-> FALSE, found |-> FALSE, creds |-> json_load(NonObject)]

\* "if creds:" in check.main: None and {} are false, any other object is
\* true; a value that is no object may be either ([] and 0 are false, [1]
\* and "x" are true).
creds_truth(r) ==
    IF ~r.found THEN {FALSE}
    ELSE IF r.creds.isdict THEN {DOMAIN r.creds.obj # {}}
    ELSE BOOLEAN

\* The file curl writes the response body to (check.py line 49).
RESP_FILE == "/tmp/apigee_resp.json"

\* What curl prints for %{http_code}, and the bodies a server may send.
HttpCodes == {"200", "404", "500"}
Bodies == {Malformed, NonObject, JsonObject(EmptyDict), JsonObject("name" :> P1)}

\* Credential texts: those of deploy, and an object without project_id.
CheckKeyTexts == KeyTexts \cup {JsonObject("type" :> <<"s", "a">>)}

\* One entry of the command log of check.py.
CEntry(name, project, out) == [cmd |-> name, project |-> project, out |-> out]

\* The process ends with the given status.
CExit(status) ==
    /\ cpc' = "exited"
    /\ cexit' = status

InitCheck ==
    /\ files \in {EmptyDict} \cup {KEY_FILE :> t : t \in CheckKeyTexts}
    /\ dirs \in SUBSET required
    /\ cenviron \in Opt("GCP_SA_KEY", CheckKeyTexts)
    /\ cpc = "check_structure"
    /\ cproject = NoId
    /\ ccmds = <<>>
    /\ cexit = Running
    /\ DeployIdle
    /\ InitIdle

\* check.main lines 66-67.
CheckStructure ==
    /\ cpc = "check_structure"
    /\ IF check_structure(dirs)
       THEN /\ cpc' = "load_credentials"
            /\ UNCHANGED cexit
       ELSE CExit(1)
    /\ UNCHANGED <<files, dirs, cenviron, cproject, ccmds, dvars, ivars>>

\* check.main lines 69-75 up to the call of check_apigee_api: an exception
\* of json.load or of creds["project_id"] ends the process with status 1.
CheckLoadCredentials ==
    /\ cpc = "load_credentials"
    /\ LET r == load_credentials(files, cenviron) IN
       IF r.raised
       THEN /\ CExit(1)
            /\ UNCHANGED cproject
       ELSE \E truth \in creds_truth(r) :
            IF ~truth
            THEN /\ CExit(0)
                 /\ UNCHANGED cproject
            ELSE IF ~r.creds.isdict \/ "project_id" \notin DOMAIN r.creds.obj
            THEN /\ CExit(1)
                 /\ UNCHANGED cproject
            ELSE /\ cpc' = "print_access_token"
                 /\ cproject' = r.creds.obj["project_id"]
                 /\ UNCHANGED cexit
    /\ UNCHANGED <<files, dirs, cenviron, ccmds, dvars, ivars>>

\* check_apigee_api lines 38-44: without a token the check is skipped and
\* main ends normally.
CheckPrintAccessToken ==
    /\ cpc = "print_access_token"
    /\ \E rc \in RCs :
        /\ ccmds' = Append(ccmds, CEntry("print_access_token", NoId, rc))
        /\ IF rc # 0
           THEN CExit(0)
           ELSE /\ cpc' = "curl"
                /\ UNCHANGED cexit
    /\ UNCHANGED <<files, dirs, cenviron, cproject, dvars, ivars>>

\* check_apigee_api lines 46-62: curl writes the body to RESP_FILE; on 200
\* the body is parsed and data.get called, which raises unless the body is
\* a JSON object.
CheckCurl ==
    /\ cpc = "curl"
    /\ \E http_code \in HttpCodes, body \in Bodies :
        /\ ccmds' = Append(ccmds, CEntry("curl", cproject, http_code))
        /\ files' = Put(files, RESP_FILE, body)
        /\ IF http_code = "200"
           THEN LET data == json_load(files'[RESP_FILE]) IN
                IF data.ok /\ data.isdict THEN CExit(0) ELSE CExit(1)
           ELSE CExit(0)
    /\ UNCHANGED <<dirs, cenviron, cproject, dvars, ivars>>

NextCheck ==
    \/ CheckStructure
    \/ CheckLoadCredentials
    \/ CheckPrintAccessToken
    \/ CheckCurl

SpecCheck == InitCheck /\ [][NextCheck]_vars

----------------------------------------------------------------------------
(* Claims about check.py *)

\* C15: a check run that ended has status non-zero and has issued no
\* command when a required directory is missing, and status 0 when all
\* three exist, whatever the credentials, the token command and the HTTP
\* call yield.
C15_ExitDependsOnStructureOnly ==
    cpc = "exited" =>
        IF check_structure(dirs)
        THEN cexit = 0
        ELSE cexit # 0 /\ ccmds = <<>>


----------------------------------------------------------------------------
(* Claims about deploy.py and check.py together *)

\* The project id check.py passes to check_apigee_api when deploy runs it
\* as command e, or NoId when it makes no Apigee check.
CheckPyProject(e) ==
    LET r == load_credentials(files, e.env) IN
    IF /\ r.found
       /\ ~r.raised
       /\ r.creds.isdict
       /\ "project_id" \in DOMAIN r.creds.obj
    THEN r.creds.obj["project_id"]
    ELSE NoId

\* The command lines and the project variables of the commands name no
\* project but the resolved one.
CommandsNameResolved ==
    \A i \in DOMAIN dcmds :
        /\ dcmds[i].project \in {NoId, dproject}
        /\ \A k \in {"GCP_PROJECT_ID", "GOOGLE_PROJECT"} :
            k \in DOMAIN dcmds[i].env => dcmds[i].env[k] = dproject

\* C18: every command of a deploy run that names a project names the one
\* get_project_id resolved: on its command line, in the GCP_PROJECT_ID and
\* GOOGLE_PROJECT it is handed, and in the Apigee check check.py makes.
C18_OneProjectEverywhere ==
    /\ CommandsNameResolved
    /\ \A i \in DOMAIN dcmds :
        dcmds[i].cmd = "check_py" =>
            CheckPyProject(dcmds[i]) \in {NoId, dproject}

====
